---------------------------- MODULE Spec2Model ----------------------------
(***************************************************************************)
(* NeuraOps UI: the authenticated API client (ApiService), the session     *)
(* service (AuthService) and the route-protection middleware.              *)
(*                                                                         *)
(* Encodings.                                                              *)
(*  - A URL path is the sequence of its segments: "/" is <<"">>,           *)
(*    "/agents" is <<"agents">>, "/agents/x" is <<"agents","x">>, "//x" is *)
(*    <<"","x">>; the string of a path is the concatenation of "/" \o seg, *)
(*    so the empty string is <<>>.  With this encoding                     *)
(*    pathname.startsWith(route + "/") is "route is a strict prefix".      *)
(*  - A URL is [pathname, returnUrl]; returnUrl is <<>> when the query     *)
(*    has no returnUrl parameter and <<v>> when it has the value v (itself *)
(*    a URL string, possibly the empty string).                            *)
(*  - Tokens are opaque JWT strings (part_009:186, 316); NULL is the       *)
(*    JavaScript null/undefined, "" the empty string.                      *)
(*  - All client handlers run in the browser (they are started from        *)
(*    useEffect and event handlers), so `typeof window !== 'undefined'`    *)
(*    holds wherever the code tests it.                                    *)
(***************************************************************************)
EXTENDS Naturals, Sequences, FiniteSets, Bags, TLC

NULL == "<null>"

\* The tokens the backend hands out.
Tokens == {"T1", "T2"}

\* JavaScript truthiness of a string-or-null value.
Truthy(v) == v # NULL /\ v # ""

-----------------------------------------------------------------------------
(* Bounds *)

\* Longest path, in segments, a navigation is drawn from.
MaxSegs == 2

\* Most calls in flight at once.
MaxCalls == 2

\* Runs of AuthInitializer's initAuth that may overlap.
MaxPasses == 2

-----------------------------------------------------------------------------
(* Route Guard: middleware.ts *)

publicRoutes == { <<"login">> }

protectedRoutes ==
  { <<"">>, <<"agents">>, <<"workflows">>, <<"monitoring">>, <<"settings">>,
    <<"documentation">>, <<"cli">> }

apiRoutes == { <<"api">>, <<"_next">>, <<"favicon.ico">> }

\* route === pathname, or pathname.startsWith(route + '/')
matchesRoute(pathname, routes) ==
  \E route \in routes :
     \/ route = pathname
     \/ /\ Len(pathname) > Len(route)
        /\ SubSeq(pathname, 1, Len(route)) = route

\* The Authorization header of a navigation: absent, or "<scheme> <cred>".
NoHeader == [scheme |-> NULL, cred |-> NULL]

\* cookie first, then an Authorization header that starts with "Bearer ".
getAuthToken(req) ==
  IF Truthy(req.cookie) THEN req.cookie
  ELSE IF req.authorization # NoHeader /\ req.authorization.scheme = "Bearer"
       THEN req.authorization.cred
       ELSE NULL

\* URL strings.
PathUrl(p) == [pathname |-> p, returnUrl |-> <<>>]
EmptyStr == PathUrl(<<>>)
HomeUrl == PathUrl(<<"">>)
NoLocation == [pathname |-> <<>>, returnUrl |-> <<"none">>]

NextResponse_next(read) ==
  [kind |-> "next", location |-> NoLocation, readToken |-> read]

NextResponse_redirect(url, read) ==
  [kind |-> "redirect", location |-> url, readToken |-> read]

\* new URL('/login', request.url) with searchParams.set('returnUrl', pathname)
loginUrl(pathname) ==
  [pathname |-> <<"login">>, returnUrl |-> << PathUrl(pathname) >>]

\* searchParams.get('returnUrl') || '/'
returnTarget(req) ==
  IF req.returnUrl # <<>> /\ req.returnUrl[1] # EmptyStr
  THEN req.returnUrl[1] ELSE HomeUrl

middleware_NoReturnUrl(req) ==
  IF matchesRoute(req.pathname, apiRoutes) THEN NextResponse_next(FALSE)
  ELSE LET tok == getAuthToken(req)
           isProtectedRoute == matchesRoute(req.pathname, protectedRoutes)
           isPublicRoute == matchesRoute(req.pathname, publicRoutes)
       IN IF isProtectedRoute /\ ~Truthy(tok)
          THEN NextResponse_redirect(PathUrl(<<"login">>), TRUE)
          ELSE IF isPublicRoute /\ req.pathname = <<"login">> /\ Truthy(tok)
          THEN NextResponse_redirect(returnTarget(req), TRUE)
          ELSE NextResponse_next(TRUE)

middleware_IgnoreReturnUrl(req) ==
  IF matchesRoute(req.pathname, apiRoutes) THEN NextResponse_next(FALSE)
  ELSE LET tok == getAuthToken(req)
           isProtectedRoute == matchesRoute(req.pathname, protectedRoutes)
           isPublicRoute == matchesRoute(req.pathname, publicRoutes)
       IN IF isProtectedRoute /\ ~Truthy(tok)
          THEN NextResponse_redirect(loginUrl(req.pathname), TRUE)
          ELSE IF isPublicRoute /\ req.pathname = <<"login">> /\ Truthy(tok)
          THEN NextResponse_redirect(HomeUrl, TRUE)
          ELSE NextResponse_next(TRUE)

middleware_TokenFirst(req) ==
  LET tok == getAuthToken(req)
      isProtectedRoute == matchesRoute(req.pathname, protectedRoutes)
      isPublicRoute == matchesRoute(req.pathname, publicRoutes)
  IN IF isProtectedRoute /\ ~Truthy(tok)
     THEN NextResponse_redirect(loginUrl(req.pathname), TRUE)
     ELSE IF isPublicRoute /\ req.pathname = <<"login">> /\ Truthy(tok)
     THEN NextResponse_redirect(returnTarget(req), TRUE)
     ELSE NextResponse_next(TRUE)

middleware_ChecksValue(req) ==
  IF matchesRoute(req.pathname, apiRoutes) THEN NextResponse_next(FALSE)
  ELSE LET tok == getAuthToken(req)
           valid == Truthy(tok) /\ tok # "T2"
           isProtectedRoute == matchesRoute(req.pathname, protectedRoutes)
           isPublicRoute == matchesRoute(req.pathname, publicRoutes)
       IN IF isProtectedRoute /\ ~valid
          THEN NextResponse_redirect(loginUrl(req.pathname), TRUE)
          ELSE IF isPublicRoute /\ req.pathname = <<"login">> /\ valid
          THEN NextResponse_redirect(returnTarget(req), TRUE)
          ELSE NextResponse_next(TRUE)

middleware_LoginToLogin(req) ==
  IF matchesRoute(req.pathname, apiRoutes) THEN NextResponse_next(FALSE)
  ELSE LET tok == getAuthToken(req)
           isProtectedRoute == matchesRoute(req.pathname, protectedRoutes)
           isPublicRoute == matchesRoute(req.pathname, publicRoutes)
       IN IF isProtectedRoute /\ ~Truthy(tok)
          THEN NextResponse_redirect(loginUrl(req.pathname), TRUE)
          ELSE IF isPublicRoute /\ req.pathname = <<"login">> /\ Truthy(tok)
          THEN NextResponse_redirect(PathUrl(<<"login">>), TRUE)
          ELSE NextResponse_next(TRUE)

\* The decision for one navigation; readToken records whether getAuthToken
\* was called.  config.matcher (lines 100-110) keeps the middleware off some
\* paths, which are then served as they are; none of them is protected or
\* /login, so the middleware would answer next() for each of them too.
middleware(req) ==
  IF matchesRoute(req.pathname, apiRoutes) THEN NextResponse_next(FALSE)
  ELSE LET tok == getAuthToken(req)
           isProtectedRoute == matchesRoute(req.pathname, protectedRoutes)
           isPublicRoute == matchesRoute(req.pathname, publicRoutes)
       IN IF isProtectedRoute /\ ~Truthy(tok)
          THEN NextResponse_redirect(loginUrl(req.pathname), TRUE)
          ELSE IF isPublicRoute /\ req.pathname = <<"login">> /\ Truthy(tok)
          THEN NextResponse_redirect(returnTarget(req), TRUE)
          ELSE NextResponse_next(TRUE)

-----------------------------------------------------------------------------
(* The navigations the guard is exercised on *)

\* Path segments: the empty segment, route names of each table, others.
Segs == {"", "login", "agents", "cli", "api", "_next", "favicon.ico", "x"}

SeqsUpTo(S, n) == UNION { [1..k -> S] : k \in 1..n }

Paths == SeqsUpTo(Segs, MaxSegs)

\* Values of the returnUrl query parameter: absent, empty, a one-segment path.
ReturnUrls ==
  { <<>>, <<EmptyStr>> } \cup { << PathUrl(p) >> : p \in SeqsUpTo(Segs, 1) }

CookieValues == {NULL, ""} \cup Tokens

Headers ==
  {NoHeader} \cup [scheme : {"Bearer", "Basic"}, cred : {"", "T1"}]

NavRequests ==
  [pathname : Paths, returnUrl : ReturnUrls, cookie : CookieValues,
   authorization : Headers]

NoResponse == [kind |-> "pending", location |-> NoLocation, readToken |-> FALSE]

-----------------------------------------------------------------------------
(* Token Store: ApiService.token, localStorage, document.cookie *)

AUTH_KEY == "neuraops_auth_token"
LEGACY_KEYS == {"neuraops_token", "neuraops_api_key"}
PERSIST_KEY == "neuraops-auth"
LSKeys == {AUTH_KEY, PERSIST_KEY} \cup LEGACY_KEYS

\* max-age of the auth cookie, in seconds.
CookieMaxAge == 86400

\* document.cookie = 'neuraops_auth_token=<value>; path=/; max-age=<maxAge>':
\* the browser stores the value, and drops the cookie when max-age is 0.
\* `jar` is the value of the cookie neuraops_auth_token, NULL when absent.
cookieAssign(jar, value, maxAge) == IF maxAge = 0 THEN NULL ELSE value

\* getCookieValue('neuraops_auth_token'): null when the cookie is absent
\* (parts.length # 2) or its value is empty (cookieValue || null).
getCookieValue(jar) == IF jar = NULL \/ jar = "" THEN NULL ELSE jar

initializeAuth_StorageOnly(ls, jar) == ls[AUTH_KEY]

\* localStorage.getItem(AUTH_KEY) ?? getCookieValue(AUTH_KEY)
initializeAuth(ls, jar) ==
  IF ls[AUTH_KEY] # NULL THEN ls[AUTH_KEY] ELSE getCookieValue(jar)

setToken_KeepsCookie(st, t) ==
  IF Truthy(t)
  THEN [token |-> t,
        localStorage |-> [st.localStorage EXCEPT ![AUTH_KEY] = t],
        cookie |-> cookieAssign(st.cookie, t, CookieMaxAge)]
  ELSE [token |-> t,
        localStorage |->
          [k \in LSKeys |->
             IF k = AUTH_KEY \/ k \in LEGACY_KEYS THEN NULL
             ELSE st.localStorage[k]],
        cookie |-> st.cookie]

setToken_NoCookieWrite(st, t) ==
  IF Truthy(t)
  THEN [token |-> t,
        localStorage |-> [st.localStorage EXCEPT ![AUTH_KEY] = t],
        cookie |-> st.cookie]
  ELSE [token |-> t,
        localStorage |->
          [k \in LSKeys |->
             IF k = AUTH_KEY \/ k \in LEGACY_KEYS THEN NULL
             ELSE st.localStorage[k]],
        cookie |-> cookieAssign(st.cookie, "", 0)]

setToken_StorageOnly(st, t) ==
  IF Truthy(t)
  THEN [token |-> st.token,
        localStorage |-> [st.localStorage EXCEPT ![AUTH_KEY] = t],
        cookie |-> cookieAssign(st.cookie, t, CookieMaxAge)]
  ELSE [token |-> st.token,
        localStorage |->
          [k \in LSKeys |->
             IF k = AUTH_KEY \/ k \in LEGACY_KEYS THEN NULL
             ELSE st.localStorage[k]],
        cookie |-> cookieAssign(st.cookie, "", 0)]

\* setToken(t) on the store st = [token, localStorage, cookie].
setToken(st, t) ==
  IF Truthy(t)
  THEN [token |-> t,
        localStorage |-> [st.localStorage EXCEPT ![AUTH_KEY] = t],
        cookie |-> cookieAssign(st.cookie, t, CookieMaxAge)]
  ELSE [token |-> t,
        localStorage |->
          [k \in LSKeys |->
             IF k = AUTH_KEY \/ k \in LEGACY_KEYS THEN NULL
             ELSE st.localStorage[k]],
        cookie |-> cookieAssign(st.cookie, "", 0)]

getCurrentToken(st) == st.token

isAuthenticated(st) == Truthy(st.token)

-----------------------------------------------------------------------------
(* Request Pipeline: ApiService.request *)

authorizationHeader_Never(tok) == NULL

\* headers['Authorization'] = `Bearer ${this.token}` when this.token is
\* truthy; the token the header carries, NULL when there is no header.
authorizationHeader(tok) == IF Truthy(tok) THEN tok ELSE NULL

MSG_401 == "Authentication required. Please check your API token."
MSG_403 == "Access forbidden. Please verify your API token has the required permissions."
MSG_TIMEOUT == "Request timed out"
MSG_FETCH == "Failed to fetch"
MSG_PARSE == "Unexpected end of JSON input"
STATUS_TEXT == "statusText"

HttpStatuses == {200, 204, 401, 403, 500}

\* response.ok
ok(status) == status \in {200, 204}

\* What the network does to one fetch: the timer aborts it, it fails, or a
\* response comes with a status, a content type, a body that can be read and
\* parsed or not (bodyOk), and, in a JSON body, message / data.token /
\* data.user.
NoBody == [message |-> NULL, token |-> NULL, user |-> FALSE]

Outcomes ==
  { [kind |-> k, status |-> 0, isJson |-> FALSE, bodyOk |-> FALSE,
     body |-> NoBody] : k \in {"abort", "network"} }
  \cup
  { [kind |-> "http", status |-> s, isJson |-> j, bodyOk |-> b, body |-> d] :
      s \in HttpStatuses, j \in BOOLEAN, b \in BOOLEAN,
      d \in [message : {NULL, "backend message"},
             token : Tokens \cup {NULL}, user : BOOLEAN] }

\* Outcomes that differ only in what the code never sees are one outcome.
NormalOutcome(o) ==
  /\ (o.kind = "http" /\ (~o.isJson \/ ~o.bodyOk)) => o.body = NoBody
  /\ (o.kind = "http" /\ o.status = 204) => (o.body = NoBody /\ o.bodyOk)
  /\ (o.kind = "http" /\ ok(o.status)) => o.body.message = NULL
  /\ (o.kind = "http" /\ ~ok(o.status)) =>
        (o.body.token = NULL /\ ~o.body.user /\ (~o.isJson => o.bodyOk))

ApiError(message, status) ==
  [type |-> "ApiError", status |-> status, message |-> message,
   data |-> NoBody]

Value(status, data) ==
  [type |-> "value", status |-> status, message |-> NULL, data |-> data]

\* response.text() is returned without await: its rejection is not caught
\* by the try block.
RawError(message) ==
  [type |-> "raw", status |-> 200, message |-> message, data |-> NoBody]

requestResult_PassThrough403(o) ==
  IF o.kind = "abort" THEN ApiError(MSG_TIMEOUT, 408)
  ELSE IF o.kind = "network" THEN ApiError(MSG_FETCH, 0)
  ELSE IF ~ok(o.status)
  THEN LET parsed == IF o.isJson /\ o.bodyOk /\ o.body.message # NULL
                     THEN o.body.message ELSE STATUS_TEXT
       IN ApiError(IF o.status = 401 THEN MSG_401 ELSE parsed, o.status)
  ELSE IF o.status = 204 THEN Value(204, NoBody)
  ELSE IF o.isJson
  THEN IF o.bodyOk THEN Value(o.status, o.body) ELSE ApiError(MSG_PARSE, 0)
  ELSE IF o.bodyOk THEN Value(o.status, NoBody) ELSE RawError(MSG_FETCH)

\* How request() settles on outcome o.
requestResult(o) ==
  IF o.kind = "abort" THEN ApiError(MSG_TIMEOUT, 408)
  ELSE IF o.kind = "network" THEN ApiError(MSG_FETCH, 0)
  ELSE IF ~ok(o.status)
  THEN LET parsed == IF o.isJson /\ o.bodyOk /\ o.body.message # NULL
                     THEN o.body.message ELSE STATUS_TEXT
           errorMessage == IF o.status = 401 THEN MSG_401
                           ELSE IF o.status = 403 THEN MSG_403
                           ELSE parsed
       IN ApiError(errorMessage, o.status)
  ELSE IF o.status = 204 THEN Value(204, NoBody)
  ELSE IF o.isJson
  THEN IF o.bodyOk THEN Value(o.status, o.body) ELSE ApiError(MSG_PARSE, 0)
  ELSE IF o.bodyOk THEN Value(o.status, NoBody) ELSE RawError(MSG_FETCH)

-----------------------------------------------------------------------------
(* Session operations: what each caller of request() does when it settles. *)
(* st is the store [token, localStorage, cookie], sess the sessionStorage, *)
(* res the settled request.  The result names the store and session left   *)
(* behind, whether the operation returned or threw (and the message        *)
(* thrown), and the argument of its last setToken call (<<>> when none).   *)

Step(st, sess, outcome, thrown, set) ==
  [store |-> st, session |-> sess, outcome |-> outcome, thrown |-> thrown,
   set |-> set]

\* ApiService.login: response.data?.token truthy -> setToken(token).
ApiService_login(st, sess, res) ==
  IF res.type = "value"
  THEN IF Truthy(res.data.token)
       THEN Step(setToken(st, res.data.token), sess, "returned", NULL,
                 << res.data.token >>)
       ELSE Step(st, sess, "returned", NULL, <<>>)
  ELSE Step(st, sess, "threw", res.message, <<>>)

\* AuthService.login: returns what apiService.login returns, rethrows.
AuthService_login(st, sess, res) == ApiService_login(st, sess, res)

\* ApiService.refreshToken
ApiService_refreshToken(st, sess, res) ==
  IF res.type = "value"
  THEN IF Truthy(res.data.token)
       THEN Step(setToken(st, res.data.token), sess, "returned", NULL,
                 << res.data.token >>)
       ELSE Step(st, sess, "returned", NULL, <<>>)
  ELSE Step(st, sess, "threw", res.message, <<>>)

\* ApiService.logout: await request, then setToken(null).
ApiService_logout(st, sess, res) ==
  IF res.type = "value"
  THEN Step(setToken(st, NULL), sess, "returned", NULL, << NULL >>)
  ELSE Step(st, sess, "threw", res.message, <<>>)

\* localStorage.removeItem(key)
removeItem(ls, key) == [ls EXCEPT ![key] = NULL]

AuthService_logout_NoFinally(st, sess, res) ==
  IF res.type = "value"
  THEN LET s1 == setToken(st, NULL)
           s2 == [s1 EXCEPT !.localStorage =
                     removeItem(removeItem(s1.localStorage, AUTH_KEY),
                                PERSIST_KEY)]
       IN Step(s2, {}, "returned", NULL, << NULL >>)
  ELSE Step(st, sess, "threw", res.message, <<>>)

AuthService_logout_RequiresToken(st, sess, res) ==
  IF ~Truthy(st.token)
  THEN Step(st, sess, "threw", "Not logged in", <<>>)
  ELSE LET s1 == setToken(st, NULL)
           s2 == [s1 EXCEPT !.localStorage =
                     removeItem(removeItem(s1.localStorage, AUTH_KEY),
                                PERSIST_KEY)]
       IN Step(s2, {}, "returned", NULL, << NULL >>)

\* AuthService.logout: try apiService.logout, catch and log, finally
\* setToken(null), remove AUTH_KEY and PERSIST_KEY, sessionStorage.clear().
AuthService_logout(st, sess, res) ==
  LET api == ApiService_logout(st, sess, res)
      s1 == setToken(api.store, NULL)
      s2 == [s1 EXCEPT !.localStorage =
                removeItem(removeItem(s1.localStorage, AUTH_KEY), PERSIST_KEY)]
  IN Step(s2, {}, "returned", NULL, << NULL >>)

AuthService_validateToken_NoClear(st, sess, res) ==
  IF res.type = "value"
  THEN Step(st, sess, "returned", NULL, <<>>)
  ELSE Step(st, sess, "threw", res.message, <<>>)

\* AuthService.validateToken after its request: on any failure
\* setToken(null) and rethrow.
AuthService_validateToken(st, sess, res) ==
  IF res.type = "value"
  THEN Step(st, sess, "returned", NULL, <<>>)
  ELSE Step(setToken(st, NULL), sess, "threw", res.message, << NULL >>)

PlainRequest_ClearsOn401(st, sess, res) ==
  IF res.type = "value"
  THEN Step(st, sess, "returned", NULL, <<>>)
  ELSE IF res.status = 401
  THEN Step(setToken(st, NULL), sess, "threw", res.message, <<>>)
  ELSE Step(st, sess, "threw", res.message, <<>>)

\* A caller of request() that only takes the result.
PlainRequest(st, sess, res) ==
  IF res.type = "value"
  THEN Step(st, sess, "returned", NULL, <<>>)
  ELSE Step(st, sess, "threw", res.message, <<>>)

-----------------------------------------------------------------------------
(* State *)

VARIABLES
  request,        \* the navigation that reaches the guard
  response,       \* the guard's decision, NoResponse until it has run
  token,          \* ApiService.token
  localStorage,   \* key -> value, NULL when the key is not stored
  sessionStorage, \* the keys stored in sessionStorage
  cookie,         \* value of the cookie neuraops_auth_token, NULL when absent
  inflight,       \* bag of the calls awaiting their fetch
  last,           \* history: the operation that settled last
  cleared,        \* history: the last setToken call was setToken(null)
  logoutRun,      \* history: 1 a logout() settled; 2 the next logout() was
                  \* then started; 3 it settled too; 0 anything else
  call,           \* one request() followed through its awaits
  passes,         \* the runs of AuthInitializer's initAuth, in starting order
  nav,            \* one navigation followed through guard and page effects
  authStore       \* useAuthStore: user, isAuthenticated, error, and its call

guardVars == <<request, response>>
clientVars ==
  <<token, localStorage, sessionStorage, cookie, inflight, last, cleared,
    logoutRun>>
vars == <<guardVars, clientVars, call, passes, nav, authStore>>

Store == [token |-> token, localStorage |-> localStorage, cookie |-> cookie]

\* A call in flight is [op, authorization, timed]: the operation awaiting
\* it, the token its Authorization header carries (NULL: no header), whether
\* request() was given a timeoutMs.

NoResult == [type |-> "none", status |-> 0, message |-> NULL, data |-> NoBody]

Event(op, k, res) ==
  [op |-> op, outcome |-> k.outcome, thrown |-> k.thrown, req |-> res,
   set |-> k.set]

\* Something that is no operation's end: the start, a reload, an expiry.
EnvEvent(what) ==
  [op |-> what, outcome |-> "none", thrown |-> NULL, req |-> NoResult,
   set |-> <<>>]

NoEvent == EnvEvent("none")

\* The responses an endpoint can give: only the login and refresh
\* endpoints answer with data.token and data.user.
AuthOutcomes == { o \in Outcomes : NormalOutcome(o) }

PlainOutcomes == { o \in AuthOutcomes : o.body.token = NULL /\ ~o.body.user }

OutcomesFor(op) ==
  IF op \in {"login", "refreshToken"} THEN AuthOutcomes ELSE PlainOutcomes

ClientInit ==
  /\ localStorage \in
       { [k \in LSKeys |-> IF k = AUTH_KEY THEN t ELSE "stored"] :
           t \in Tokens \cup {NULL} }
  /\ cookie \in Tokens \cup {NULL}
  /\ token = initializeAuth(localStorage, cookie)
  /\ sessionStorage = {"cache"}
  /\ inflight = EmptyBag
  /\ last = NoEvent
  /\ cleared = FALSE
  /\ logoutRun = 0

\* The client before anything happened, for the guard's own specification.
ClientIdle ==
  /\ localStorage = [k \in LSKeys |-> NULL]
  /\ cookie = NULL
  /\ token = NULL
  /\ sessionStorage = {}
  /\ inflight = EmptyBag
  /\ last = NoEvent
  /\ cleared = FALSE
  /\ logoutRun = 0

GuardIdle ==
  /\ request =
       [pathname |-> <<"">>, returnUrl |-> <<>>, cookie |-> NULL,
        authorization |-> NoHeader]
  /\ response = NoResponse

\* No outcome yet: fetch has not settled.
NoOutcome ==
  [kind |-> "none", status |-> 0, isJson |-> FALSE, bodyOk |-> FALSE,
   body |-> NoBody]

\* No request() is followed, no initAuth has run.
PipelineIdle ==
  call = [phase |-> "idle", timeoutMs |-> 0, endpoint |-> "responds",
          o |-> NoOutcome, result |-> NoResult]

InitializerIdle == passes = <<>>

\* No navigation is followed.
NavIdle ==
  nav = [target |-> <<"">>, url |-> HomeUrl, stage |-> "idle",
         mounted |-> NoLocation, validated |-> FALSE]

\* useAuthStore as created: no user, nothing awaited.
AuthStoreIdle ==
  authStore = [user |-> FALSE, isAuthenticated |-> FALSE, isLoading |-> FALSE,
               error |-> NULL, pc |-> "idle"]

-----------------------------------------------------------------------------
(* Route Guard actions *)

\* A navigation arrives: any request of the bounded input space.
Navigation ==
  /\ request \in NavRequests
  /\ response = NoResponse

GuardInit ==
  /\ Navigation
  /\ ClientIdle /\ PipelineIdle /\ InitializerIdle /\ NavIdle /\ AuthStoreIdle

\* The middleware runs on the navigation.
RunMiddleware ==
  /\ response = NoResponse
  /\ response' = middleware(request)
  /\ UNCHANGED request
  /\ UNCHANGED <<clientVars, call, passes, nav, authStore>>

GuardNext == RunMiddleware

SpecGuard == GuardInit /\ [][GuardNext]_vars

-----------------------------------------------------------------------------
(* Redirect chains: the browser follows each redirect of the guard with a  *)
(* new navigation that carries the same cookie and header.                 *)

\* A returnUrl that points at /login with a returnUrl of its own.
NestedReturnUrl ==
  << [pathname |-> <<"login">>, returnUrl |-> << PathUrl(<<"login">>) >>] >>

ChainRequests ==
  [pathname : Paths, returnUrl : ReturnUrls \cup {NestedReturnUrl},
   cookie : CookieValues,
   authorization : {NoHeader, [scheme |-> "Bearer", cred |-> "T1"]}]

ChainInit ==
  /\ request \in ChainRequests
  /\ response = NoResponse
  /\ ClientIdle /\ PipelineIdle /\ InitializerIdle /\ NavIdle /\ AuthStoreIdle

\* The browser requests the Location of the redirect.
FollowRedirect ==
  /\ response.kind = "redirect"
  /\ request' = [request EXCEPT !.pathname = response.location.pathname,
                                 !.returnUrl = response.location.returnUrl]
  /\ response' = NoResponse
  /\ UNCHANGED <<clientVars, call, passes, nav, authStore>>

ChainNext == RunMiddleware \/ FollowRedirect

\* The server answers every navigation and the browser follows every
\* redirect.
SpecChain == ChainInit /\ [][ChainNext]_vars /\ WF_vars(ChainNext)

-----------------------------------------------------------------------------
(* Client actions *)

InFlight(op) == { c \in BagToSet(inflight) : c.op = op }

\* request() up to its await fetch: the headers are built from this.token.
StartRequest(op, timed) ==
  /\ BagCardinality(inflight) < MaxCalls
  /\ inflight' = inflight (+) SetToBag(
        {[op |-> op, authorization |-> authorizationHeader(token),
          timed |-> timed]})
  /\ UNCHANGED <<guardVars, token, localStorage, sessionStorage, cookie,
                 last, cleared, call, passes, nav, authStore>>

\* The operation awaiting call c resumes with outcome o and runs to its end.
Settles(c, o, k) ==
  /\ inflight' = inflight (-) SetToBag({c})
  /\ token' = k.store.token
  /\ localStorage' = k.store.localStorage
  /\ cookie' = k.store.cookie
  /\ sessionStorage' = k.session
  /\ last' = Event(c.op, k, requestResult(o))
  /\ cleared' = IF k.set = <<>> THEN cleared ELSE ~Truthy(k.set[1])
  /\ logoutRun' = IF c.op = "logout"
                  THEN (IF logoutRun = 2 THEN 3 ELSE 1) ELSE 0
  /\ UNCHANGED <<guardVars, call, passes, nav, authStore>>

\* The fetch of c can end in o: only a call with a timeoutMs is aborted.
CanEnd(c, o) == o.kind = "abort" => c.timed

\* authService.login(username, password)
LoginStart ==
  /\ StartRequest("login", FALSE)
  /\ logoutRun' = 0

LoginSettles ==
  \E c \in InFlight("login") : \E o \in OutcomesFor("login") :
     /\ CanEnd(c, o)
     /\ Settles(c, o, AuthService_login(Store, sessionStorage, requestResult(o)))

\* apiService.refreshToken()
RefreshStart ==
  /\ StartRequest("refreshToken", FALSE)
  /\ logoutRun' = 0

RefreshSettles ==
  \E c \in InFlight("refreshToken") : \E o \in OutcomesFor("refreshToken") :
     /\ CanEnd(c, o)
     /\ Settles(c, o,
                ApiService_refreshToken(Store, sessionStorage, requestResult(o)))

\* authService.logout()
LogoutStart ==
  /\ StartRequest("logout", FALSE)
  /\ logoutRun' = IF logoutRun \in {1, 3} /\ InFlight("logout") = {}
                  THEN 2 ELSE 0

LogoutSettles ==
  \E c \in InFlight("logout") : \E o \in OutcomesFor("logout") :
     /\ CanEnd(c, o)
     /\ Settles(c, o, AuthService_logout(Store, sessionStorage, requestResult(o)))

\* authService.validateToken() with a token: getSystemMetrics() is requested.
ValidateStart ==
  /\ isAuthenticated(Store)
  /\ StartRequest("validateToken", FALSE)
  /\ logoutRun' = 0

ValidateNoToken_Probes ==
  /\ ~isAuthenticated(Store)
  /\ StartRequest("validateToken", FALSE)
  /\ logoutRun' = 0

\* authService.validateToken() without a token: throws at once.
ValidateNoToken ==
  /\ ~isAuthenticated(Store)
  /\ last' = Event("validateToken",
                   Step(Store, sessionStorage, "threw", "No token available",
                        <<>>),
                   NoResult)
  /\ logoutRun' = 0
  /\ UNCHANGED <<guardVars, token, localStorage, sessionStorage, cookie,
                 inflight, cleared, call, passes, nav, authStore>>

ValidateSettles ==
  \E c \in InFlight("validateToken") : \E o \in OutcomesFor("validateToken") :
     /\ CanEnd(c, o)
     /\ Settles(c, o,
                AuthService_validateToken(Store, sessionStorage, requestResult(o)))

\* Any other caller of request(), with or without a timeoutMs.
RequestStart ==
  \E timed \in BOOLEAN :
     /\ StartRequest("request", timed)
     /\ logoutRun' = 0

RequestSettles ==
  \E c \in InFlight("request") : \E o \in OutcomesFor("request") :
     /\ CanEnd(c, o)
     /\ Settles(c, o, PlainRequest(Store, sessionStorage, requestResult(o)))

\* The auth cookie reaches its max-age and the browser drops it.
CookieExpires ==
  /\ cookie # NULL
  /\ cookie' = NULL
  /\ last' = EnvEvent("cookieExpires")
  /\ logoutRun' = 0
  /\ UNCHANGED <<guardVars, token, localStorage, sessionStorage, inflight,
                 cleared, call, passes, nav, authStore>>

\* The page is loaded again: a new ApiService is constructed and the calls
\* of the old page are gone.
Reload ==
  /\ token' = initializeAuth(localStorage, cookie)
  /\ inflight' = EmptyBag
  /\ last' = EnvEvent("reload")
  /\ logoutRun' = 0
  /\ UNCHANGED <<guardVars, localStorage, sessionStorage, cookie, cleared,
                 call, passes, nav, authStore>>

Next ==
  \/ LoginStart \/ LoginSettles
  \/ RefreshStart \/ RefreshSettles
  \/ LogoutStart \/ LogoutSettles
  \/ ValidateStart \/ ValidateNoToken \/ ValidateSettles
  \/ RequestStart \/ RequestSettles
  \/ CookieExpires
  \/ Reload

Init ==
  /\ ClientInit
  /\ GuardIdle /\ PipelineIdle /\ InitializerIdle /\ NavIdle /\ AuthStoreIdle

Spec == Init /\ [][Next]_vars

-----------------------------------------------------------------------------
(* One request() followed through its awaits: await fetch, with the timer  *)
(* of timeoutMs armed, then the read of the body, the timer cleared.       *)

\* timeoutMs as given by the caller; 0 stands for none given (`if
\* (timeoutMs)` arms no timer for 0 or undefined).
Timeouts == {0, 50, 10000}

\* The endpoint answers at some time, or never does.
Endpoints == {"responds", "silent"}

HttpOutcomes == { o \in AuthOutcomes : o.kind = "http" }

AbortOutcome == CHOOSE o \in Outcomes : o.kind = "abort"

NetworkOutcome == CHOOSE o \in Outcomes : o.kind = "network"

\* request(endpoint, options, timeoutMs) has reached its await fetch.
PipelineInit ==
  /\ call \in [phase : {"fetching"}, timeoutMs : Timeouts,
                endpoint : Endpoints, o : {NoOutcome}, result : {NoResult}]
  /\ ClientIdle /\ GuardIdle /\ InitializerIdle /\ NavIdle /\ AuthStoreIdle

\* fetch resolves with a response; clearTimeout(timeoutId).
FetchResolves ==
  /\ call.phase = "fetching"
  /\ call.endpoint = "responds"
  /\ \E o \in HttpOutcomes :
        call' = [call EXCEPT !.phase = "reading", !.o = o]
  /\ UNCHANGED <<guardVars, clientVars, passes, nav,
                 authStore>>

\* fetch rejects: DNS, connection refused, CORS.
FetchRejects ==
  /\ call.phase = "fetching"
  /\ call.endpoint = "responds"
  /\ call' = [call EXCEPT !.phase = "settled", !.o = NetworkOutcome,
                           !.result = requestResult(NetworkOutcome)]
  /\ UNCHANGED <<guardVars, clientVars, passes, nav,
                 authStore>>

TimerFires_OnlyWhileAnswering ==
  /\ call.phase = "fetching"
  /\ call.timeoutMs # 0
  /\ call.endpoint = "responds"
  /\ call' = [call EXCEPT !.phase = "settled", !.o = AbortOutcome,
                           !.result = requestResult(AbortOutcome)]
  /\ UNCHANGED <<guardVars, clientVars, passes, nav,
                 authStore>>

TimerFires_NotCleared ==
  /\ call.phase \in {"fetching", "reading"}
  /\ call.timeoutMs # 0
  /\ call' = [call EXCEPT !.phase = "settled", !.o = AbortOutcome,
                           !.result = requestResult(AbortOutcome)]
  /\ UNCHANGED <<guardVars, clientVars, passes, nav,
                 authStore>>

\* The timer set for timeoutMs fires while fetch is pending:
\* controller.abort() rejects fetch with an AbortError.
TimerFires ==
  /\ call.phase = "fetching"
  /\ call.timeoutMs # 0
  /\ call' = [call EXCEPT !.phase = "settled", !.o = AbortOutcome,
                           !.result = requestResult(AbortOutcome)]
  /\ UNCHANGED <<guardVars, clientVars, passes, nav,
                 authStore>>

\* The rest of request(): the body is read where the code reads it, and
\* the call returns or throws.
BodyRead ==
  /\ call.phase = "reading"
  /\ call' = [call EXCEPT !.phase = "settled",
                           !.result = requestResult(call.o)]
  /\ UNCHANGED <<guardVars, clientVars, passes, nav,
                 authStore>>

PipelineNext == FetchResolves \/ FetchRejects \/ TimerFires \/ BodyRead

SpecPipeline == PipelineInit /\ [][PipelineNext]_vars

\* The timer callback is run by the event loop once its delay has passed.
SpecPipelineLive ==
  PipelineInit /\ [][PipelineNext]_vars /\ WF_vars(TimerFires)

-----------------------------------------------------------------------------
(* AuthInitializer: each change of pathname runs initAuth again, and a run  *)
(* that awaits is not cancelled, so runs overlap.  A pass is               *)
(*   pathname   the page it runs on                                        *)
(*   hadToken   what authService.isAuthenticated() answered                *)
(*   pc         "validating": awaits validateToken(); "failed": it threw;   *)
(*              "loggingOut": awaits logout(); "loggedOut": it returned;    *)
(*              "done": initAuth has returned                               *)
(*   validated  validateToken() returned                                   *)
(*   redirect   the path given to router.push, NoRedirect when none        *)
(*   calls      the network requests the pass has issued                   *)

LoginPath == <<"login">>

\* router.push has not been called.
NoRedirect == <<>>

Pages == {LoginPath, <<"">>, <<"agents">>}

Pass(pathname, had, pc, redirect, calls) ==
  [pathname |-> pathname, hadToken |-> had, pc |-> pc, validated |-> FALSE,
   redirect |-> redirect, calls |-> calls]

initAuth_TrustsMissingToken(pathname, st) ==
  IF pathname = LoginPath \/ ~isAuthenticated(st)
  THEN Pass(pathname, isAuthenticated(st), "done", NoRedirect, 0)
  ELSE Pass(pathname, TRUE, "validating", NoRedirect, 1)

\* initAuth up to its first await: return on /login; router.push('/login')
\* and return without a token; else validateToken(), whose request starts.
initAuth(pathname, st) ==
  IF pathname = LoginPath
  THEN Pass(pathname, isAuthenticated(st), "done", NoRedirect, 0)
  ELSE IF ~isAuthenticated(st)
  THEN Pass(pathname, FALSE, "done", LoginPath, 0)
  ELSE Pass(pathname, TRUE, "validating", NoRedirect, 1)

At(pc) == { i \in DOMAIN passes : passes[i].pc = pc }

SetStore(st, sess) ==
  /\ token' = st.token
  /\ localStorage' = st.localStorage
  /\ cookie' = st.cookie
  /\ sessionStorage' = sess

InitializerFrame ==
  UNCHANGED <<guardVars, inflight, last, cleared, logoutRun, call, nav,
              authStore>>

InitializerInit ==
  /\ ClientInit
  /\ GuardIdle /\ PipelineIdle /\ InitializerIdle /\ NavIdle /\ AuthStoreIdle

\* The effect runs on a page: useEffect(..., [pathname, router]).
InitAuthStarts ==
  /\ Len(passes) < MaxPasses
  /\ \E pathname \in Pages : passes' = Append(passes, initAuth(pathname, Store))
  /\ UNCHANGED <<token, localStorage, cookie, sessionStorage>>
  /\ InitializerFrame

\* await authService.validateToken() settles: it returns, or it has
\* cleared the token and throws.
InitAuthValidationSettles ==
  /\ \E i \in At("validating") : \E o \in PlainOutcomes :
        LET k == AuthService_validateToken(Store, sessionStorage,
                                           requestResult(o))
        IN /\ o.kind # "abort"
           /\ SetStore(k.store, k.session)
           /\ passes' = [passes EXCEPT
                 ![i].pc = IF k.outcome = "returned" THEN "done" ELSE "failed",
                 ![i].validated = (k.outcome = "returned")]
  /\ InitializerFrame

\* catch: await authService.logout(), whose request starts.
InitAuthLogoutStarts ==
  /\ \E i \in At("failed") :
        passes' = [passes EXCEPT ![i].pc = "loggingOut",
                                 ![i].calls = passes[i].calls + 1]
  /\ UNCHANGED <<token, localStorage, cookie, sessionStorage>>
  /\ InitializerFrame

\* authService.logout() ends.
InitAuthLogoutSettles ==
  /\ \E i \in At("loggingOut") : \E o \in PlainOutcomes :
        LET k == AuthService_logout(Store, sessionStorage, requestResult(o))
        IN /\ o.kind # "abort"
           /\ SetStore(k.store, k.session)
           /\ passes' = [passes EXCEPT
                 ![i].pc = IF k.outcome = "returned" THEN "loggedOut"
                           ELSE "done",
                 ![i].redirect = IF k.outcome = "returned" THEN NoRedirect
                                 ELSE LoginPath]
  /\ InitializerFrame

InitAuthRedirects_BeforeLogout ==
  /\ \E i \in At("failed") \cup At("loggedOut") :
        passes' = [passes EXCEPT ![i].pc = "done", ![i].redirect = LoginPath]
  /\ UNCHANGED <<token, localStorage, cookie, sessionStorage>>
  /\ InitializerFrame

\* router.push('/login') after the await of logout().
InitAuthRedirects ==
  /\ \E i \in At("loggedOut") :
        passes' = [passes EXCEPT ![i].pc = "done", ![i].redirect = LoginPath]
  /\ UNCHANGED <<token, localStorage, cookie, sessionStorage>>
  /\ InitializerFrame

InitializerNext ==
  \/ InitAuthStarts
  \/ InitAuthValidationSettles
  \/ InitAuthLogoutStarts
  \/ InitAuthLogoutSettles
  \/ InitAuthRedirects

SpecInitializer == InitializerInit /\ [][InitializerNext]_vars

-----------------------------------------------------------------------------
(* One navigation of the browser, followed from the request of a protected *)
(* page until nothing more runs: the middleware on each request, the       *)
(* effect of AuthInitializer (in the root layout, dependencies [pathname,  *)
(* router]) and the effect of LoginPage (dependencies [router]).  nav is    *)
(* [target, url, stage, mounted, validated]: the page asked for, the URL   *)
(* being requested or shown, where the navigation stands, the URL whose    *)
(* effects ran last, whether validateToken() returned on the page shown.   *)

NavTargets == { <<"">>, <<"agents">>, <<"agents", "x">>, <<"cli">> }

NavFrame ==
  UNCHANGED <<guardVars, inflight, last, cleared, logoutRun, call, passes,
              authStore>>

NavKeepsStore == UNCHANGED <<token, localStorage, cookie, sessionStorage>>

\* The document is requested: ApiService is constructed from what the
\* browser holds when the page loads.
NavInit ==
  /\ ClientInit
  /\ GuardIdle /\ PipelineIdle /\ InitializerIdle /\ AuthStoreIdle
  /\ \E p \in NavTargets :
        nav = [target |-> p, url |-> PathUrl(p), stage |-> "request",
               mounted |-> NoLocation, validated |-> FALSE]

\* The request the browser sends for nav.url: the cookie jar as it is, no
\* Authorization header.
NavRequest ==
  [pathname |-> nav.url.pathname, returnUrl |-> nav.url.returnUrl,
   cookie |-> cookie, authorization |-> NoHeader]

effectsRun_EveryArrival(url, mounted, again) == TRUE

\* Whether effects run when url is shown after mounted: both effects when
\* the pathname changed; with the pathname kept and the query changed,
\* AuthInitializer does not run again and LoginPage runs again only if the
\* router mounts the page anew (again).
effectsRun(url, mounted, again) ==
  \/ url.pathname # mounted.pathname
  \/ url # mounted /\ again

\* The middleware answers the request: the browser follows a redirect, or
\* the page is rendered.
NavMiddleware ==
  /\ nav.stage = "request"
  /\ LET res == middleware(NavRequest)
     IN nav' = IF res.kind = "redirect"
               THEN [nav EXCEPT !.url = res.location]
               ELSE [nav EXCEPT !.stage = "rendered"]
  /\ NavKeepsStore
  /\ NavFrame

\* The page is shown and the effects run up to their first await.  On
\* /login initAuth returns and checkAuth shows the form without a token or
\* awaits validateToken(); elsewhere initAuth pushes /login without a token
\* or awaits validateToken().
NavRender ==
  /\ nav.stage = "rendered"
  /\ \E again \in BOOLEAN :
        IF ~effectsRun(nav.url, nav.mounted, again)
        THEN nav' = [nav EXCEPT !.stage = "settled"]
        ELSE LET p == initAuth(nav.url.pathname, Store)
                 shown == [nav EXCEPT !.mounted = nav.url,
                                      !.validated = FALSE]
             IN nav' =
                  IF nav.url.pathname = LoginPath
                  THEN [shown EXCEPT !.stage =
                          IF isAuthenticated(Store) THEN "checking"
                          ELSE "settled"]
                  ELSE IF p.pc = "validating"
                  THEN [shown EXCEPT !.stage = "validating"]
                  ELSE [shown EXCEPT !.url = PathUrl(p.redirect),
                                     !.stage = "request"]
  /\ NavKeepsStore
  /\ NavFrame

\* checkAuth: await authService.validateToken() settles; router.push('/')
\* when it returns, the form when it throws.
CheckAuthSettles ==
  /\ nav.stage = "checking"
  /\ \E o \in PlainOutcomes :
        LET k == AuthService_validateToken(Store, sessionStorage,
                                           requestResult(o))
        IN /\ o.kind # "abort"
           /\ SetStore(k.store, k.session)
           /\ nav' = IF k.outcome = "returned"
                     THEN [nav EXCEPT !.url = HomeUrl, !.stage = "request"]
                     ELSE [nav EXCEPT !.stage = "settled"]
  /\ NavFrame

\* initAuth: await authService.validateToken() settles.
NavValidationSettles ==
  /\ nav.stage = "validating"
  /\ \E o \in PlainOutcomes :
        LET k == AuthService_validateToken(Store, sessionStorage,
                                           requestResult(o))
        IN /\ o.kind # "abort"
           /\ SetStore(k.store, k.session)
           /\ nav' = IF k.outcome = "returned"
                     THEN [nav EXCEPT !.stage = "settled", !.validated = TRUE]
                     ELSE [nav EXCEPT !.stage = "loggingOut"]
  /\ NavFrame

\* initAuth, catch: await authService.logout() ends, router.push('/login').
NavLogoutSettles ==
  /\ nav.stage = "loggingOut"
  /\ \E o \in PlainOutcomes :
        LET k == AuthService_logout(Store, sessionStorage, requestResult(o))
        IN /\ o.kind # "abort"
           /\ SetStore(k.store, k.session)
           /\ nav' = [nav EXCEPT !.url = PathUrl(LoginPath),
                                 !.stage = "request"]
  /\ NavFrame

NavNext ==
  \/ NavMiddleware
  \/ NavRender
  \/ CheckAuthSettles
  \/ NavValidationSettles
  \/ NavLogoutSettles

\* Every request the browser awaits settles and every effect runs.
SpecNavigation == NavInit /\ [][NavNext]_vars /\ WF_vars(NavNext)

-----------------------------------------------------------------------------
(* useAuthStore: the state [user, isAuthenticated, isLoading, error] the   *)
(* interface reads, and its login and logout actions, one at a time.       *)
(* authStore.pc is the action awaited or the one that ended last.          *)

MSG_INVALID_LOGIN == "Invalid login response"

AuthState(user, authenticated, loading, error, pc) ==
  [user |-> user, isAuthenticated |-> authenticated, isLoading |-> loading,
   error |-> error, pc |-> pc]

\* useAuthStore.login once apiService.login settled: with data.user and
\* data.token, refreshAuth() and the user is set; otherwise, and when the
\* call threw, the catch records the message and signs the store out.
useAuthStore_login(st, sess, res) ==
  LET k == ApiService_login(st, sess, res)
  IN IF k.outcome = "returned" /\ res.data.user /\ Truthy(res.data.token)
     THEN [store |-> [k.store EXCEPT !.token =
                        initializeAuth(k.store.localStorage, k.store.cookie)],
           session |-> k.session,
           state |-> AuthState(TRUE, TRUE, FALSE, NULL, "loggedIn")]
     ELSE [store |-> k.store, session |-> k.session,
           state |-> AuthState(FALSE, FALSE, FALSE,
                               IF k.outcome = "returned"
                               THEN MSG_INVALID_LOGIN ELSE k.thrown,
                               "loginFailed")]

\* useAuthStore.logout once apiService.logout settled: an error is logged,
\* and finally the store is signed out.
useAuthStore_logout(st, sess, res) ==
  LET k == ApiService_logout(st, sess, res)
  IN [store |-> k.store, session |-> k.session,
      state |-> AuthState(FALSE, FALSE, FALSE, NULL, "loggedOut")]

AuthStoreFrame ==
  UNCHANGED <<guardVars, inflight, last, cleared, logoutRun, call, passes,
              nav>>

AuthStoreBusy == authStore.pc \in {"login", "logout"}

AuthStoreInit ==
  /\ ClientInit
  /\ GuardIdle /\ PipelineIdle /\ InitializerIdle /\ NavIdle /\ AuthStoreIdle

\* login: set({ isLoading: true, error: null }), apiService.login awaited.
StoreLoginStarts ==
  /\ ~AuthStoreBusy
  /\ authStore' = [authStore EXCEPT !.isLoading = TRUE, !.error = NULL,
                                    !.pc = "login"]
  /\ UNCHANGED <<token, localStorage, cookie, sessionStorage>>
  /\ AuthStoreFrame

StoreLoginSettles ==
  /\ authStore.pc = "login"
  /\ \E o \in AuthOutcomes :
        LET k == useAuthStore_login(Store, sessionStorage, requestResult(o))
        IN /\ o.kind # "abort"
           /\ SetStore(k.store, k.session)
           /\ authStore' = k.state
  /\ AuthStoreFrame

\* logout: set({ isLoading: true }), apiService.logout awaited.
StoreLogoutStarts ==
  /\ ~AuthStoreBusy
  /\ authStore' = [authStore EXCEPT !.isLoading = TRUE, !.pc = "logout"]
  /\ UNCHANGED <<token, localStorage, cookie, sessionStorage>>
  /\ AuthStoreFrame

StoreLogoutSettles ==
  /\ authStore.pc = "logout"
  /\ \E o \in PlainOutcomes :
        LET k == useAuthStore_logout(Store, sessionStorage, requestResult(o))
        IN /\ o.kind # "abort"
           /\ SetStore(k.store, k.session)
           /\ authStore' = k.state
  /\ AuthStoreFrame

AuthStoreNext ==
  \/ StoreLoginStarts
  \/ StoreLoginSettles
  \/ StoreLogoutStarts
  \/ StoreLogoutSettles

SpecAuthStore == AuthStoreInit /\ [][AuthStoreNext]_vars

-----------------------------------------------------------------------------
(* Route Guard properties, under SpecGuard *)

\* The navigation carries no token: no non-empty cookie and no
\* "Bearer <non-empty>" Authorization header.
NoTokenPresent(req) ==
  /\ req.cookie \in {NULL, ""}
  /\ ~(req.authorization.scheme = "Bearer" /\ req.authorization.cred \in Tokens)

TokenPresent(req) == ~NoTokenPresent(req)

Decided == response # NoResponse

\* C1: a navigation to a protected path with no token present is answered
\* with a redirect to /login whose returnUrl is the path navigated to.
C1_ProtectedWithoutTokenRedirectsToLogin ==
  (Decided /\ matchesRoute(request.pathname, protectedRoutes)
     /\ NoTokenPresent(request))
  => /\ response.kind = "redirect"
     /\ response.location.pathname = <<"login">>
     /\ response.location.returnUrl = << PathUrl(request.pathname) >>

C1_Witness ==
  /\ request.pathname = <<"agents", "x">>
  /\ request.cookie = ""
  /\ request.authorization = [scheme |-> "Basic", cred |-> "T1"]
  /\ response.kind = "redirect"

\* C2: a navigation to exactly /login with a token present is redirected, to
\* the returnUrl parameter when it has a (non-empty) value and to / otherwise.
C2_LoginWithTokenRedirects ==
  (Decided /\ request.pathname = <<"login">> /\ TokenPresent(request))
  => /\ response.kind = "redirect"
     /\ response.location =
          IF request.returnUrl \in {<<>>, <<EmptyStr>>}
          THEN PathUrl(<<"">>) ELSE request.returnUrl[1]

C2_Witness ==
  /\ request.pathname = <<"login">>
  /\ request.cookie = NULL
  /\ request.authorization = [scheme |-> "Bearer", cred |-> "T1"]
  /\ request.returnUrl = << PathUrl(<<"agents">>) >>
  /\ response = NextResponse_redirect(PathUrl(<<"agents">>), TRUE)

\* C3: a path under /api, /_next or /favicon.ico is allowed whatever the
\* token state, and the token is not read.
C3_BypassedAlwaysAllowed ==
  (Decided /\ request.pathname[1] \in {"api", "_next", "favicon.ico"})
  => (response.kind = "next" /\ ~response.readToken)

C3_Witness ==
  /\ request.pathname = <<"_next", "x">>
  /\ request.cookie = "T1"
  /\ response.kind = "next"

-----------------------------------------------------------------------------
(* Token Store and Session Service properties, under Spec *)

StoreEmpty ==
  /\ getCurrentToken(Store) = NULL
  /\ localStorage[AUTH_KEY] = NULL
  /\ cookie = NULL

\* The step removes call c from the calls in flight: its operation settles.
SettlesIn(c) == inflight' = inflight (-) SetToBag({c})

\* C4: right after an operation whose last Token Store write was
\* setToken(T), get() returns T; right after one whose last write was
\* setToken(null), get() returns null and localStorage[neuraops_auth_token]
\* and the cookie neuraops_auth_token are empty.
C4_SetThenGet ==
  /\ (last.set # <<>> /\ last.set # << NULL >>)
        => getCurrentToken(Store) = last.set[1]
  /\ last.set = << NULL >> => StoreEmpty

C4_Witness ==
  /\ last.op = "login"
  /\ last.set = << "T2" >>
  /\ getCurrentToken(Store) = "T2"
  /\ \E c \in BagToSet(inflight) : c.authorization = "T1"

\* C5: right after every operation that wrote the Token Store, localStorage
\* and the cookie hold the value written, or are both empty; setToken being
\* one synchronous step, there is no state in which one is written and the
\* other is not.
C5_StorageAndCookieAgreeAfterWrite ==
  last.set # <<>> =>
     /\ localStorage[AUTH_KEY] = cookie
     /\ cookie = last.set[1]

C5_Witness ==
  /\ last.op = "refreshToken"
  /\ last.set = << "T1" >>
  /\ localStorage[AUTH_KEY] = "T1"
  /\ cookie = "T1"

\* C6: once setToken(null) has run, and until a token is stored again,
\* get() returns null, every request started carries no Authorization
\* header, and the step that ran setToken(null) leaves the other calls in
\* flight as they were, with the header they were sent with.
C6_NoNewRequestWithClearedToken ==
  [][ /\ cleared' => getCurrentToken(Store)' = NULL
      /\ cleared =>
           \A c \in BagToSet(inflight') :
              CopiesIn(c, inflight') > CopiesIn(c, inflight)
                 => c.authorization = NULL
      /\ (Truthy(token) /\ cleared' /\ last'.op # "reload") =>
           /\ inflight' \sqsubseteq inflight
           /\ BagCardinality(inflight') = BagCardinality(inflight) - 1 ]_vars

C6_Witness ==
  /\ cleared
  /\ last.op = "logout"
  /\ getCurrentToken(Store) = NULL
  /\ \E c \in BagToSet(inflight) : c.op = "request" /\ c.authorization = "T1"

\* C7: the end of a login either finds user and token in the response and
\* stores that token, or leaves the Token Store as it was.
C7_LoginNeverPartiallyCommits ==
  [][ \A c \in InFlight("login") :
        (SettlesIn(c) /\ last'.op = "login") =>
           \/ /\ last'.req.data.user
              /\ last'.req.data.token \in Tokens
              /\ getCurrentToken(Store)' = last'.req.data.token
           \/ Store' = Store ]_vars

\* C8: a login whose request succeeded returns only when the response has
\* both user and token, and otherwise throws "Invalid login response".
C8_IncompleteLoginResponseFails ==
  (last.op = "login" /\ last.req.type = "value") =>
     IF last.req.data.user /\ last.req.data.token \in Tokens
     THEN last.outcome = "returned"
     ELSE last.outcome = "threw" /\ last.thrown = "Invalid login response"

\* C9: whenever logout() ends, whatever its request came to, it has
\* returned, the Token Store is empty, and sessionStorage and the persisted
\* auth state are cleared.
C9_LogoutAlwaysClears ==
  last.op = "logout" =>
     /\ last.outcome = "returned"
     /\ StoreEmpty
     /\ sessionStorage = {}
     /\ localStorage[PERSIST_KEY] = NULL

C9_Witness ==
  /\ last.op = "logout"
  /\ last.req.type = "ApiError"
  /\ last.req.status = 0
  /\ StoreEmpty
  /\ sessionStorage = {}

\* C10: of two logout() calls in a row, each returns and leaves the Token
\* Store empty, and the store is empty when the second one starts.
C10_LogoutIdempotent ==
  /\ logoutRun \in {1, 3} => (last.op = "logout" /\ last.outcome = "returned")
  /\ logoutRun \in {1, 2, 3} => StoreEmpty

C10_Witness ==
  /\ logoutRun = 3
  /\ last.req.status = 500
  /\ StoreEmpty

\* The step adds call c to the calls in flight: a request() is started.
Started(c) == CopiesIn(c, inflight') > CopiesIn(c, inflight)

\* C11: when validateToken() ends by throwing the failure of its probe,
\* get() returns null and localStorage[neuraops_auth_token] and the cookie
\* are empty in the state in which the caller resumes.
C11_RejectedValidationClearsStore ==
  (/\ last.op = "validateToken"
   /\ last.req.type # "none"
   /\ last.outcome = "threw") => StoreEmpty

C11_Witness ==
  /\ last.op = "validateToken"
  /\ last.outcome = "threw"
  /\ last.req.status = 401
  /\ last.set = << NULL >>
  /\ StoreEmpty

\* C12: no validateToken() request is ever started while no token is
\* present, and the validateToken() that finds no token throws "No token
\* available" in a step that leaves the calls in flight and the Token Store
\* as they were.
C12_ValidateWithoutTokenFailsAtOnce ==
  [][ /\ \A c \in BagToSet(inflight') :
            (c.op = "validateToken" /\ Started(c)) => Truthy(token)
      /\ (last' # last /\ last'.op = "validateToken"
                       /\ last'.req.type = "none") =>
            /\ ~Truthy(token)
            /\ last'.outcome = "threw"
            /\ last'.thrown = "No token available"
            /\ inflight' = inflight
            /\ Store' = Store ]_vars

C12_Witness ==
  /\ last.op = "validateToken"
  /\ last.req.type = "none"
  /\ last.thrown = "No token available"
  /\ getCurrentToken(Store) = NULL
  /\ \E c \in BagToSet(inflight) : c.op = "request" /\ c.authorization = "T1"

\* C13: the in-memory token goes from present to absent only in the step
\* that ends a logout() or a validateToken() whose probe got 401 or 403, and
\* takes another value only in the step that ends a login or refresh whose
\* request succeeded (a page reload, which reads the token again from
\* storage, set aside).
C13_TokenLifecycle ==
  [][ /\ (Truthy(token) /\ ~Truthy(token')) =>
            \/ last'.op \in {"logout", "reload"}
            \/ last'.op = "validateToken" /\ last'.req.status \in {401, 403}
      /\ (Truthy(token') /\ token' # token) =>
            \/ last'.op = "reload"
            \/ last'.op \in {"login", "refreshToken"}
                  /\ last'.req.type = "value" ]_vars

\* C14: the step that ends a login which stored T leaves T as the current
\* token, in memory and in localStorage; T stays the current token through
\* every step that is not the end of an operation that wrote the Token Store
\* (login, refresh, logout, failed validation); and while T is the current
\* token every request() started carries Authorization: Bearer T.
C14_RequestsCarryLoginToken ==
  [][ \A T \in Tokens :
        LET Cur == token = T /\ localStorage[AUTH_KEY] = T
            CurNext == token' = T /\ localStorage'[AUTH_KEY] = T
            Wrote == \E c \in BagToSet(inflight) :
                        SettlesIn(c) /\ last'.op = c.op /\ last'.set # <<>>
        IN /\ (\E c \in InFlight("login") :
                  SettlesIn(c) /\ last'.op = "login" /\ last'.set = << T >>)
                => CurNext
           /\ (Cur /\ ~Wrote) => CurNext
           /\ Cur => \A c \in BagToSet(inflight') :
                        Started(c) => c.authorization = T ]_vars

C14_Witness ==
  /\ last.op = "login"
  /\ last.set = << "T1" >>
  /\ \E c \in BagToSet(inflight) : c.op = "request" /\ c.authorization = "T1"
  /\ \E c \in BagToSet(inflight) : c.op = "request" /\ c.authorization = NULL

\* C15: the step in which a request() starts, and the step in which a plain
\* request() settles, whatever its outcome, leave the in-memory token,
\* localStorage and the cookie as they were.
C15_RequestLeavesStoreAlone ==
  [][ /\ (\E c \in BagToSet(inflight') : Started(c)) => Store' = Store
      /\ \A c \in InFlight("request") :
            (SettlesIn(c) /\ last'.op = "request") => Store' = Store ]_vars

C15_Witness ==
  /\ last.op = "request"
  /\ last.req.status = 401
  /\ last.outcome = "threw"
  /\ getCurrentToken(Store) = "T1"
  /\ localStorage[AUTH_KEY] = "T1"
  /\ cookie = "T1"

-----------------------------------------------------------------------------
(* Request Pipeline properties, under SpecPipeline and SpecPipelineLive *)

Settled == call.phase = "settled"

\* The response is a success whose body, where the code reads one, is read.
Succeeds(o) ==
  /\ o.kind = "http"
  /\ ok(o.status)
  /\ o.status = 204 \/ o.bodyOk

\* C16: a request() that does not succeed settles with an ApiError whose
\* status is the HTTP status of a non-2xx response, 408 after the abort of
\* the timer, and 0 for any other failure, a failed read of the body
\* included; nothing but an ApiError is thrown.
C16_FailuresAreClassified ==
  Settled =>
    IF Succeeds(call.o)
    THEN call.result.type = "value"
    ELSE /\ call.result.type = "ApiError"
         /\ call.result.status =
               IF call.o.kind = "http" /\ ~ok(call.o.status)
               THEN call.o.status
               ELSE IF call.o.kind = "abort" THEN 408 ELSE 0

\* C17 as stated: a 403 gives the fixed message whatever the body, and
\* every other non-2xx response whose JSON body has a message gives that
\* message.
C17_MessageMapping_AsStated ==
  (Settled /\ call.o.kind = "http" /\ ~ok(call.o.status)) =>
     /\ call.o.status = 403 => call.result.message = MSG_403
     /\ (call.o.status # 403 /\ call.o.isJson /\ call.o.bodyOk
           /\ call.o.body.message # NULL)
          => call.result.message = call.o.body.message

\* C17: a 403 gives the fixed message "Access forbidden. ..." and a 401
\* the fixed message "Authentication required. ...", whatever the body;
\* every other non-2xx response whose JSON body has a message gives that
\* message.
C17_MessageMapping ==
  (Settled /\ call.o.kind = "http" /\ ~ok(call.o.status)) =>
     /\ call.o.status = 403 => call.result.message = MSG_403
     /\ call.o.status = 401 => call.result.message = MSG_401
     /\ (call.o.status \notin {401, 403} /\ call.o.isJson /\ call.o.bodyOk
           /\ call.o.body.message # NULL)
          => call.result.message = call.o.body.message

C17_Witness ==
  /\ Settled
  /\ call.o.status = 403
  /\ call.o.isJson /\ call.o.bodyOk
  /\ call.o.body.message = "backend message"
  /\ call.result.message = MSG_403

\* C18: a request() given a timeoutMs and waiting on an endpoint that
\* never responds eventually settles, with an ApiError of status 408.
C18_TimeoutSettles ==
  (call.phase = "fetching" /\ call.timeoutMs # 0 /\ call.endpoint = "silent")
    ~> (Settled /\ call.result.type = "ApiError"
                /\ call.result.status = 408)

C18_Witness ==
  /\ Settled
  /\ call.timeoutMs = 50
  /\ call.endpoint = "silent"
  /\ call.result.status = 408

-----------------------------------------------------------------------------
(* AuthInitializer properties, under SpecInitializer *)

\* C19: a pass that starts with a token on a page other than /login awaits
\* validateToken(); the step in which validateToken() returns ends the pass
\* with no redirect and the Token Store as it was; after the step in which
\* it throws, the next step of the pass is the call of logout(); and a pass
\* that found a token issues its redirect, to /login, only from the state
\* its logout() has returned to, in which the Token Store is empty.
C19_ValidateThenLogoutThenRedirect ==
  [][ /\ Len(passes') > Len(passes) =>
            LET p == passes'[Len(passes')]
            IN (p.pathname # LoginPath /\ isAuthenticated(Store))
                  => (p.pc = "validating" /\ p.redirect = NoRedirect)
      /\ \A i \in DOMAIN passes :
            LET p == passes[i]
                q == passes'[i]
            IN /\ (p.pc = "validating" /\ q.validated) =>
                     (q.pc = "done" /\ q.redirect = NoRedirect /\ Store' = Store)
               /\ (p.pc = "validating" /\ q.pc # "validating"
                                       /\ ~q.validated) =>
                     (q.pc = "failed" /\ q.redirect = NoRedirect)
               /\ (p.pc = "failed" /\ q # p) =>
                     (q.pc = "loggingOut" /\ q.redirect = NoRedirect)
               /\ (p.hadToken /\ p.redirect = NoRedirect /\ q.redirect # NoRedirect) =>
                     /\ p.pc = "loggedOut"
                     /\ q.redirect = LoginPath
                     /\ StoreEmpty ]_vars

C19_Witness ==
  /\ \E i \in DOMAIN passes :
        /\ passes[i].pc = "done"
        /\ passes[i].validated
        /\ passes[i].redirect = NoRedirect
  /\ \E i \in DOMAIN passes :
        /\ passes[i].hadToken
        /\ passes[i].pc = "done"
        /\ passes[i].calls = 2
        /\ passes[i].redirect = LoginPath
  /\ StoreEmpty
  /\ sessionStorage = {}

\* C20: on a page other than /login, a pass that has ended without a
\* redirect to /login is one whose validateToken() returned, and a pass
\* that found no token has ended with the redirect and no network request.
C20_FailClosed ==
  \A i \in DOMAIN passes :
     LET p == passes[i]
     IN p.pathname # LoginPath =>
          /\ (p.pc = "done" /\ p.redirect # LoginPath) => p.validated
          /\ ~p.hadToken =>
                (p.pc = "done" /\ p.redirect = LoginPath /\ p.calls = 0)

C20_Witness ==
  \E i \in DOMAIN passes :
     /\ passes[i].pathname = <<"agents">>
     /\ ~passes[i].hadToken
     /\ passes[i].pc = "done"
     /\ passes[i].redirect = LoginPath
     /\ passes[i].calls = 0

-----------------------------------------------------------------------------
(* Further Route Guard properties, under SpecGuard *)

\* The navigations with the path and returnUrl of req, whatever they carry
\* as cookie and Authorization header.
SameTarget(req) ==
  [pathname : {req.pathname}, returnUrl : {req.returnUrl},
   cookie : CookieValues, authorization : Headers]

\* C21: the decision for a navigation is the decision for every navigation
\* with the same path and returnUrl and the same presence of a token,
\* whatever the token's value; and the middleware starts no request and
\* leaves the in-memory token, localStorage and the client's cookie alone.
C21_PresenceOnly ==
  Decided =>
     /\ \A other \in SameTarget(request) :
           (TokenPresent(other) <=> TokenPresent(request))
              => middleware(other) = response
     /\ inflight = EmptyBag
     /\ token = NULL /\ cookie = NULL
     /\ localStorage = [k \in LSKeys |-> NULL]

C21_Witness ==
  /\ request.pathname = <<"agents">>
  /\ request.cookie = "T2"
  /\ request.authorization = NoHeader
  /\ response.kind = "next"
  /\ middleware([request EXCEPT !.cookie = "T1"]) = response

\* The classes whose table has a route matching the path.
routeClasses(pathname) ==
  {c \in {"public", "protected", "bypassed"} :
     matchesRoute(pathname,
                  IF c = "public" THEN publicRoutes
                  ELSE IF c = "protected" THEN protectedRoutes
                  ELSE apiRoutes)}

\* C24: the path of every navigation is in exactly one of the classes
\* public, protected and bypassed.
C24_ExactlyOneClass == Cardinality(routeClasses(request.pathname)) = 1

-----------------------------------------------------------------------------
(* Further Token Store and Session Service properties, under Spec *)

\* C22: isAuthenticated() is true exactly when localStorage or the cookie
\* holds a token.
C22_AuthenticatedIffStored ==
  isAuthenticated(Store) <=> (Truthy(localStorage[AUTH_KEY]) \/ Truthy(cookie))

\* C23: when localStorage holds a token get() returns it, and when
\* localStorage holds none and the cookie holds T get() returns T.
C23_StorageThenCookie ==
  /\ localStorage[AUTH_KEY] # NULL
        => getCurrentToken(Store) = localStorage[AUTH_KEY]
  /\ (localStorage[AUTH_KEY] = NULL /\ Truthy(cookie))
        => getCurrentToken(Store) = cookie

C23_Witness ==
  /\ last.op = "reload"
  /\ localStorage[AUTH_KEY] = NULL
  /\ cookie = "T1"
  /\ getCurrentToken(Store) = "T1"

\* C27: the end of a validateToken() whose probe carried a token that is
\* no longer the current one leaves the Token Store as it is.
C27_StaleProbeLeavesNewToken ==
  [][ \A c \in InFlight("validateToken") :
        (/\ SettlesIn(c)
         /\ last'.op = "validateToken"
         /\ Truthy(token)
         /\ c.authorization # token) => Store' = Store ]_vars

\* C28: the first operation to end after a logout(), when it is a login or
\* a refresh whose request was in flight while the logout ran, leaves the
\* Token Store empty.
C28_LogoutNotUndoneByEarlierLogin ==
  [][ \A c \in InFlight("login") \cup InFlight("refreshToken") :
        (/\ logoutRun \in {1, 3}
         /\ SettlesIn(c)
         /\ last'.op = c.op) => StoreEmpty' ]_vars

-----------------------------------------------------------------------------
(* Further Request Pipeline properties, under SpecPipeline *)

\* C25: a request() whose timer fires while fetch is pending settles in
\* that step with status 408; once fetch has resolved with a response the
\* call keeps that response and does not settle with 408; and a settled
\* call does not change any more.
C25_FirstOfTimerAndResponseWins ==
  [][ /\ (call.phase = "fetching" /\ call'.o.kind = "abort") =>
            /\ call'.phase = "settled"
            /\ call'.result.type = "ApiError"
            /\ call'.result.status = 408
      /\ call.phase = "reading" =>
            /\ call'.o = call.o
            /\ ~(call'.result.type = "ApiError" /\ call'.result.status = 408)
      /\ call.phase = "settled" => call' = call ]_vars

C25_Witness ==
  /\ Settled
  /\ call.timeoutMs = 50
  /\ call.o.kind = "http"
  /\ call.o.status = 200
  /\ call.result.type = "value"

-----------------------------------------------------------------------------
(* Redirect chains, under SpecChain *)

C26_NavigationSettles ==
  <>[](/\ nav.stage = "settled"
       /\ \/ nav.url.pathname = LoginPath
          \/ nav.validated /\ nav.url.pathname = nav.target)

\* A stored token the backend accepts, without the cookie: the middleware
\* sends the page to /login, checkAuth pushes '/', the middleware sends it
\* to /login again, and the navigation rests on the form.
C26_Witness ==
  /\ nav.stage = "settled"
  /\ nav.url = loginUrl(<<"">>)
  /\ nav.mounted = loginUrl(<<"agents">>)
  /\ nav.target = <<"agents">>
  /\ cookie = NULL
  /\ isAuthenticated(Store)

\* C30: when useAuthStore.logout() has ended, user is null, isAuthenticated
\* is false and the Token Store is empty, whether the backend logout call
\* succeeded or failed.
C30_LogoutEndsSignedOutAndEmpty ==
  authStore.pc = "loggedOut" =>
     /\ ~authStore.user
     /\ ~authStore.isAuthenticated
     /\ StoreEmpty

=============================================================================
